---- MODULE Spec2Model ----
(***************************************************************************)
(* Research_AI: the research-execution workflow (Intake, Phases A..F and   *)
(* the six bridge steps), the run-research-execution-workflow tool that    *)
(* starts it, the phase output schemas and the two search tools.           *)
(***************************************************************************)
EXTENDS Integers, Sequences, FiniteSets, TLC

VARIABLES
    processDefined, \* whether the global `process` exists (search-tools)
    envKey,         \* process.env.SERPER_API_KEY: Unset or a string (sequence of characters)
    toolPc,         \* position of the tool's execute(): idle | awaitCreateRun | awaitStart |
                    \* returned | threw
    toolInput,      \* inputData.prompt given to the tool (Opt)
    toolRet,        \* value returned by execute() (Opt)
    runId,          \* run.runId of the created run (Opt)
    requestContext, \* the RequestContext passed to run.start (Opt)
    status,         \* workflow run status: none | running | success | failed
    started,        \* ids of the steps invoked so far, in order of invocation
    active,         \* indices (in Chain) of the steps in progress
    inputData,      \* inputData of the step invoked last (Opt)
    output,         \* output of the step completed last (Opt)
    runError,       \* outcome.error of the run (Opt)
    modelOut,       \* what the last model call gave: [step, raw (Opt), threw] (Opt)
    searchPc,       \* internet-search execute(): idle | fetching | returned
    searchReq,      \* {query, numResults} given to the internet-search call in progress (Opt)
    searchRet,      \* value the internet-search call returned, until its caller takes it (Opt)
    searchCalls,    \* number of internet-search calls made
    httpRequests,   \* number of HTTP requests sent to the search API
    httpResp,       \* history: what fetch() settled with in the internet-search call (Opt)
    clock,          \* minutes elapsed since the tool called run.start
    deepPc,         \* deep-research execute(): idle | looping | returned
    deepArgs,       \* {reasoning, queries} given to the deep-research call (Opt)
    deepFindings,   \* the local `results` array of the deep-research call
    deepResps,      \* history: what fetch() settled with for each query so far
    deepRet,        \* value the deep-research call returned (Opt)
    bootPc,         \* position of the module initialisation of index.ts: load | agents |
                    \* workflow | researchAgent | mastra | ready
    obsPackage,     \* what require('@mastra/observability') meets
    observability,  \* the module constant `observability` (Opt)
    obsCalls,       \* number of calls of getObservability()
    researchExecutionWorkflow, \* the module variable of that name (Opt: unset until assigned)
    capturedAtConstruction,    \* history: its value when the phase agents were created (Opt)
    mastraConfig,   \* the argument of new Mastra(...) (Opt)
    lastGetterCall, \* history: the last call of getResearchExecutionWorkflow, [at, got] (Opt)
    memoryStore,    \* the threads written in the Memory all phase agents share
    inv             \* concurrent invocations of the workflow tool: for each, its position,
                    \* prompt, run, RequestContext, the arguments of run.start and its return

vars == <<processDefined, envKey, toolPc, toolInput, toolRet, runId, requestContext,
          status, started, active, inputData, output, runError, modelOut,
          searchPc, searchReq, searchRet, searchCalls, httpRequests, httpResp, clock,
          deepPc, deepArgs, deepFindings, deepResps, deepRet, memoryStore, inv,
          bootPc, obsPackage, observability, obsCalls, researchExecutionWorkflow,
          capturedAtConstruction, mastraConfig, lastGetterCall>>

toolVars == <<toolPc, toolInput, toolRet, runId, requestContext>>
runVars == <<status, started, active, inputData, output, runError, modelOut>>
searchVars == <<searchPc, searchReq, searchRet, searchCalls, httpRequests, httpResp>>
deepVars == <<deepPc, deepArgs, deepFindings, deepResps, deepRet>>
twoVars == <<memoryStore, inv>>
bootVars == <<bootPc, obsPackage, observability, obsCalls, researchExecutionWorkflow,
              capturedAtConstruction, mastraConfig, lastGetterCall>>
envVars == <<processDefined, envKey>>

\* An optional value: None is JavaScript's undefined, Some(x) a defined value.
None == <<>>
Some(x) == <<x>>
Val(o) == o[1]

(***************************************************************************)
(* Phase output schemas (phase-agents.ts).  A schema is a function from     *)
(* field name to [kind, optional]; FieldOk is zod's check of one value.     *)
(***************************************************************************)
ResearchTypes ==
    { "Commercial Opportunity Research",
      "Product Market Fit Validation",
      "Technology-to-Business Research",
      "Investment Opportunity Research",
      "Internal Problem-Solving Research" }

TimeHorizonsWide == {30, 45, 60, 90}
TimeHorizons == {30, 60, 90}
Modes == {"commercial", "product"}
Statuses == {"SUCCESS", "PARTIAL_SUCCESS", "FAIL"}

MinTimeLimitDays == 1
MaxTimeLimitDays == 2
MaxCostLimitUsd == 500
MinMethods == 1
MaxMethods == 3

Req(k) == [kind |-> k, optional |-> FALSE]
Optional(k) == [kind |-> k, optional |-> TRUE]

\* zod's .extend(): the extension's keys are added, a key already in the base is overwritten
Extend(base, ext) ==
    [f \in (DOMAIN base) \cup (DOMAIN ext) |-> IF f \in DOMAIN ext THEN ext[f] ELSE base[f]]

PhaseAOutputSchema ==
    [ phase |-> Req("literal:A"),
      accepted |-> Req("boolean"),
      businessGoal |-> Req("string"),
      timeHorizonDays |-> Req("timeHorizon"),
      researchType |-> Req("researchTypeEnum"),
      rejectedReason |-> Optional("string"),
      mode |-> Req("modeEnum") ]

PhaseBExtension ==
    [ phase |-> Req("literal:B"),
      researchTypeValidated |-> Req("boolean"),
      validationNotes |-> Optional("string") ]
PhaseBOutputSchemaStandalone == PhaseBExtension
PhaseBOutputSchema == Extend(PhaseAOutputSchema, PhaseBExtension)

PhaseCExtension ==
    [ phase |-> Req("literal:C"),
      successCriteria |-> Req("string"),
      failureCriteria |-> Req("string"),
      timeLimitDays |-> Req("timeLimit"),
      costLimitUsd |-> Req("costLimit"),
      cycleRiskOrNoGo |-> Optional("boolean") ]
PhaseCOutputSchema == Extend(PhaseBOutputSchema, PhaseCExtension)

MethodSchema ==
    [ hypothesis |-> Req("string"),
      expectedBusinessEffect |-> Req("string"),
      failureCondition |-> Req("string"),
      proofThreshold |-> Req("string") ]

PhaseDExtension ==
    [ phase |-> Req("literal:D"),
      methods |-> Req("methods"),
      methodsJustification |-> Req("string") ]
PhaseDOutputSchemaFromB == Extend(PhaseBOutputSchema, PhaseDExtension)
PhaseDOutputSchema == Extend(PhaseCOutputSchema, PhaseDExtension)

HandoffPackageSchema ==
    [ researchGoal |-> Req("string"),
      researchType |-> Req("string"),
      icpAndBuyerRole |-> Req("string"),
      initialPaidEngagement |-> Req("string"),
      methodsWithHypothesesAndProof |-> Req("string"),
      validationAlgorithm |-> Req("string"),
      businessAndMoneyLogic |-> Req("string"),
      cycleRiskFlag |-> Optional("boolean"),
      risksAndLimitations |-> Req("string"),
      sourcesOrLinks |-> Req("string") ]

PhaseEExtensionRespecifying ==
    [ phase |-> Req("literal:E"),
      researchType |-> Req("string"),
      handoffPackage |-> Req("handoffPackage"),
      handoffWithinPageLimit |-> Req("boolean") ]
PhaseEExtension ==
    [ phase |-> Req("literal:E"),
      handoffPackage |-> Req("handoffPackage"),
      handoffWithinPageLimit |-> Req("boolean") ]
PhaseEOutputSchema == Extend(PhaseDOutputSchema, PhaseEExtension)

ExecutorFeedbackSchema ==
    [ primaryReason |-> Req("string"),
      whatWouldHaveChangedResult |-> Optional("string") ]

PhaseFExtension ==
    [ phase |-> Req("literal:F"),
      status |-> Req("statusEnum"),
      executorFeedback |-> Req("executorFeedback") ]
PhaseFOutputSchema == Extend(PhaseEOutputSchema, PhaseFExtension)

IntakeOutputSchema == [ enrichedPrompt |-> Req("string") ]
AgentInputSchema == [ prompt |-> Req("string") ]

\* zod's check of a value against a primitive kind
PrimitiveOk(kind, v) ==
    CASE kind = "boolean" -> v \in BOOLEAN
      [] kind = "string" -> v \in STRING
      [] kind = "literal:A" -> v = "A"
      [] kind = "literal:B" -> v = "B"
      [] kind = "literal:C" -> v = "C"
      [] kind = "literal:D" -> v = "D"
      [] kind = "literal:E" -> v = "E"
      [] kind = "literal:F" -> v = "F"
      [] kind = "timeHorizon" -> v \in TimeHorizons
      [] kind = "researchTypeEnum" -> v \in ResearchTypes
      [] kind = "modeEnum" -> v \in Modes
      [] kind = "statusEnum" -> v \in Statuses
      [] kind = "timeLimit" -> v >= MinTimeLimitDays /\ v <= MaxTimeLimitDays
      [] kind = "costLimit" -> v <= MaxCostLimitUsd
      [] OTHER -> FALSE

\* z.object() of primitive fields: every required key present, every present key valid
FlatObjectOk(schema, r) ==
    \A f \in DOMAIN schema :
        IF f \in DOMAIN r THEN PrimitiveOk(schema[f].kind, r[f]) ELSE schema[f].optional

FieldOk(kind, v) ==
    CASE kind = "methods" ->
            /\ Len(v) >= MinMethods
            /\ Len(v) <= MaxMethods
            /\ \A i \in 1..Len(v) : FlatObjectOk(MethodSchema, v[i])
      [] kind = "handoffPackage" -> FlatObjectOk(HandoffPackageSchema, v)
      [] kind = "executorFeedback" -> FlatObjectOk(ExecutorFeedbackSchema, v)
      [] OTHER -> PrimitiveOk(kind, v)

\* schema.safeParse(r).success
Validate(schema, r) ==
    \A f \in DOMAIN schema :
        IF f \in DOMAIN r THEN FieldOk(schema[f].kind, r[f]) ELSE schema[f].optional

\* the parsed value: keys the schema does not declare are stripped
Parse(schema, r) == [f \in (DOMAIN r) \cap (DOMAIN schema) |-> r[f]]

(***************************************************************************)
(* What a model-backed step may produce.  The language model is an          *)
(* environment: its structured output is any of a bounded set of candidate  *)
(* records -- a complete record for the phase, or that record with one      *)
(* field set to another candidate value, or with one field left out.        *)
(***************************************************************************)
With(r, f, v) == [g \in (DOMAIN r) \cup {f} |-> IF g = f THEN v ELSE r[g]]
Without(r, f) == [g \in (DOMAIN r) \ {f} |-> r[g]]
Merge(r, s) == [g \in (DOMAIN r) \cup (DOMAIN s) |-> IF g \in DOMAIN s THEN s[g] ELSE r[g]]

PhaseNames == <<"A", "B", "C", "D", "E", "F">>

aMethod ==
    [ hypothesis |-> "h", expectedBusinessEffect |-> "e",
      failureCondition |-> "f", proofThreshold |-> "1 paid signal" ]

aHandoffPackage ==
    [ researchGoal |-> "goal-1",
      researchType |-> "Product Market Fit Validation",
      icpAndBuyerRole |-> "icp",
      initialPaidEngagement |-> ">= $10k",
      methodsWithHypothesesAndProof |-> "m",
      validationAlgorithm |-> "steps",
      businessAndMoneyLogic |-> "money",
      risksAndLimitations |-> "risks",
      sourcesOrLinks |-> "links" ]

BaseA ==
    [ phase |-> "A", accepted |-> TRUE, businessGoal |-> "goal-1",
      timeHorizonDays |-> 60, researchType |-> "Product Market Fit Validation",
      mode |-> "product" ]
BaseB == Merge(BaseA, [phase |-> "B", researchTypeValidated |-> TRUE])
BaseC == Merge(BaseB, [phase |-> "C", successCriteria |-> "s", failureCriteria |-> "f",
                       timeLimitDays |-> 2, costLimitUsd |-> 500])
BaseD == Merge(BaseC, [phase |-> "D", methods |-> <<aMethod>>, methodsJustification |-> "j"])
BaseE == Merge(BaseD, [phase |-> "E", handoffPackage |-> aHandoffPackage,
                       handoffWithinPageLimit |-> TRUE])
BaseF == Merge(BaseE, [phase |-> "F", status |-> "SUCCESS",
                       executorFeedback |-> [primaryReason |-> "validated"]])

Base(p) ==
    CASE p = "A" -> BaseA [] p = "B" -> BaseB [] p = "C" -> BaseC
      [] p = "D" -> BaseD [] p = "E" -> BaseE [] p = "F" -> BaseF

AllFields == DOMAIN PhaseFOutputSchema

\* the values the language model may put in a field
Candidates(f) ==
    CASE f = "phase" -> {"A", "B", "C", "D", "E", "F"}
      [] f \in {"accepted", "researchTypeValidated", "cycleRiskOrNoGo",
                "handoffWithinPageLimit"} -> BOOLEAN
      [] f = "businessGoal" -> {"goal-1", "goal-2"}
      [] f = "timeHorizonDays" -> {30, 60, 90, 45}
      [] f = "researchType" ->
            ResearchTypes \cup {"commercial opportunity research",
                                "Commercial Opportunity Research + Product Market Fit Validation"}
      [] f = "mode" -> {"commercial", "product", "hybrid"}
      [] f = "timeLimitDays" -> {0, 1, 2, 3}
      [] f = "costLimitUsd" -> {-1, 0, 500, 501}
      [] f = "methods" ->
            {<<>>, <<aMethod, aMethod, aMethod>>, <<aMethod, aMethod, aMethod, aMethod>>,
             <<Without(aMethod, "hypothesis")>>}
      [] f = "handoffPackage" ->
            { With(aHandoffPackage, "researchType",
                   "Commercial Opportunity Research + Product Market Fit Validation"),
              With(aHandoffPackage, "researchType", "Investment Opportunity Research"),
              With(aHandoffPackage, "cycleRiskFlag", TRUE),
              Without(aHandoffPackage, "validationAlgorithm") }
      [] f = "status" -> {"SUCCESS", "PARTIAL_SUCCESS", "FAIL", "PARTIAL SUCCESS"}
      [] f = "executorFeedback" ->
            { [primaryReason |-> "r", whatWouldHaveChangedResult |-> "w"],
              [whatWouldHaveChangedResult |-> "w"] }
      [] OTHER -> {"text"}

LLMOutputs(p) ==
    {Base(p)}
      \cup UNION {{With(Base(p), f, v) : v \in Candidates(f)} : f \in AllFields}
      \cup {Without(Base(p), f) : f \in DOMAIN Base(p)}

\* the Intake agent's candidate outputs
EnrichedPrompts == {"Original request ... Time horizon: 60 days", "Time horizon not specified"}
IntakeOutputs == {[enrichedPrompt |-> e] : e \in EnrichedPrompts} \cup {[summary |-> "text"]}

(***************************************************************************)
(* Bridge steps and the step chain (research-execution-workflow.ts).        *)
(***************************************************************************)
\* the key order of a parsed record: the schema's shape order
FieldOrder ==
    << "phase", "accepted", "businessGoal", "timeHorizonDays", "researchType",
       "rejectedReason", "mode", "researchTypeValidated", "validationNotes",
       "successCriteria", "failureCriteria", "timeLimitDays", "costLimitUsd",
       "cycleRiskOrNoGo", "methods", "methodsJustification", "handoffPackage",
       "handoffWithinPageLimit", "status", "executorFeedback" >>

\* JSON.stringify(value, null, 2) of a record: its own keys, in order, each with its value
RECURSIVE StringifyFrom(_, _)
StringifyFrom(r, i) ==
    IF i > Len(FieldOrder) THEN <<>>
    ELSE IF FieldOrder[i] \in DOMAIN r
         THEN <<<<FieldOrder[i], r[FieldOrder[i]]>>>> \o StringifyFrom(r, i + 1)
         ELSE StringifyFrom(r, i + 1)
JSONstringify(r) == StringifyFrom(r, 1)

\* the template string, kept as its parts (the labels' em dash is written "-")
buildPromptWithoutRecord(phaseLabel, previousOutput) ==
    << "[Previous phase output]\n", <<>>,
       "\n\nProceed to ", phaseLabel,
       ". Output the complete structured result for this phase only (include all prior phase fields plus this phase's new fields)." >>
buildPromptForNextPhase(phaseLabel, previousOutput) ==
    << "[Previous phase output]\n", JSONstringify(previousOutput),
       "\n\nProceed to ", phaseLabel,
       ". Output the complete structured result for this phase only (include all prior phase fields plus this phase's new fields)." >>

AgentStep(id, phase, schema) ==
    [id |-> id, kind |-> "agent", phase |-> phase, schema |-> schema, label |-> ""]
BridgeStep(id, phase, inSchema, label) ==
    [id |-> id, kind |-> "bridge", phase |-> phase, schema |-> inSchema, label |-> label]

stepIntake == AgentStep("intake-agent", "Intake", IntakeOutputSchema)
bridgeIntakeToA == BridgeStep("bridge-intake-to-a", "Intake", IntakeOutputSchema, "")
stepPhaseA == AgentStep("phase-a-agent", "A", PhaseAOutputSchema)
bridgeAtoB ==
    BridgeStep("bridge-a-to-b", "A", PhaseAOutputSchema, "Phase B - Research Type Validation")
stepPhaseB == AgentStep("phase-b-agent", "B", PhaseBOutputSchema)
bridgeBtoC ==
    BridgeStep("bridge-b-to-c", "B", PhaseBOutputSchema, "Phase C - Metrics & Constraints Lock")
stepPhaseC == AgentStep("phase-c-agent", "C", PhaseCOutputSchema)
bridgeCtoD ==
    BridgeStep("bridge-c-to-d", "C", PhaseCOutputSchema, "Phase D - Solution & Method Selection")
stepPhaseD == AgentStep("phase-d-agent", "D", PhaseDOutputSchema)
bridgeDtoE ==
    BridgeStep("bridge-d-to-e", "D", PhaseDOutputSchema, "Phase E - Handoff Package Formation")
stepPhaseE == AgentStep("phase-e-agent", "E", PhaseEOutputSchema)
bridgeEtoF ==
    BridgeStep("bridge-e-to-f", "E", PhaseEOutputSchema, "Phase F - Validation & Status")
stepPhaseFWithESchema == AgentStep("phase-f-agent", "F", PhaseEOutputSchema)
stepPhaseF == AgentStep("phase-f-agent", "F", PhaseFOutputSchema)

\* createWorkflow(...).then(stepIntake).then(bridgeIntakeToA)....then(stepPhaseF).commit()
ChainWithoutBridgeCtoD ==
    << stepIntake, bridgeIntakeToA, stepPhaseA, bridgeAtoB, stepPhaseB, bridgeBtoC,
       stepPhaseC, stepPhaseD, bridgeDtoE, stepPhaseE, bridgeEtoF, stepPhaseF >>
Chain ==
    << stepIntake, bridgeIntakeToA, stepPhaseA, bridgeAtoB, stepPhaseB, bridgeBtoC,
       stepPhaseC, bridgeCtoD, stepPhaseD, bridgeDtoE, stepPhaseE, bridgeEtoF, stepPhaseF >>

\* execute() of a bridge step
BridgeExecute(step, in) ==
    IF step.id = "bridge-intake-to-a"
    THEN [prompt |-> in.enrichedPrompt]
    ELSE [prompt |-> buildPromptForNextPhase(step.label, in)]

(***************************************************************************)
(* The run-research-execution-workflow tool (research-agent.ts).            *)
(***************************************************************************)
Prompts == {"Validate demand for a $25k/month B2B tool in 60 days",
            "Validate demand for a $25k/month B2B tool in 30 days"}
RunIds == {"run-1", "run-2"}
TheWorkflow == "research-execution"

\* the tool's workflowSource: a getter, a handle, or null
WorkflowSources ==
    { [type |-> "function", yields |-> Some(TheWorkflow)],
      [type |-> "function", yields |-> None],
      [type |-> "handle", yields |-> Some(TheWorkflow)],
      [type |-> "null", yields |-> None] }
\* the execute() context: whether it carries a mastra with getWorkflow
Contexts == {[mastra |-> TRUE], [mastra |-> FALSE]}

resolveWorkflowWithFallback(source, context) ==
    IF source.yields # None THEN source.yields
    ELSE IF context.mastra THEN Some(TheWorkflow)
    ELSE None
resolveWorkflow(source, context) ==
    IF source.type = "function" THEN source.yields
    ELSE IF source.type = "handle" THEN source.yields
    ELSE IF context.mastra THEN Some(TheWorkflow)
    ELSE None

NewRequestContextFixedThread(id) ==
    [ MASTRA_THREAD_ID_KEY |-> id,
      MASTRA_RESOURCE_ID_KEY |-> id,
      MastraMemory |-> [thread |-> [id |-> "default"], resourceId |-> id] ]
NewRequestContext(id) ==
    [ MASTRA_THREAD_ID_KEY |-> id,
      MASTRA_RESOURCE_ID_KEY |-> id,
      MastraMemory |-> [thread |-> [id |-> id], resourceId |-> id] ]

\* String((outcome.error as Error)?.message ?? outcome.error)
ErrorString(err) == IF "message" \in DOMAIN err THEN err.message ELSE "[object Object]"

\* what run.start() resolves to
Outcome ==
    [ status |-> status,
      result |-> IF status = "success" THEN output ELSE None,
      error |-> IF status = "failed" THEN runError ELSE None ]

ToolErrorStrNever(outcome) == None
ToolErrorStr(outcome) ==
    IF outcome.status = "failed" /\ outcome.error # None
    THEN Some(ErrorString(Val(outcome.error)))
    ELSE None

ToolResult(outcome) == IF outcome.status = "success" THEN outcome.result ELSE None

ToolMessage(outcome) ==
    IF outcome.status = "success"
    THEN <<"Pipeline completed successfully (Phases A-F). Final result is below; tell the user in this chat.">>
    ELSE IF ToolErrorStr(outcome) # None /\ Val(ToolErrorStr(outcome)) # ""
         THEN <<"Pipeline failed: ", Val(ToolErrorStr(outcome)), ". Tell the user in this chat.">>
         ELSE <<"Pipeline finished with status: ", outcome.status, ". Tell the user in this chat.">>

\* execute() up to the await of workflow.createRun()
ToolExecute(prompt, source, context) ==
    /\ toolPc = "idle"
    /\ toolInput' = Some(prompt)
    /\ IF resolveWorkflow(source, context) = None
       THEN /\ toolPc' = "returned"
            /\ toolRet' = Some([ run |-> FALSE,
                                 error |-> Some("Workflow not available in this context"),
                                 message |-> <<"The pipeline could not be started (workflow not available). Please try again or use Research AI.">> ])
       ELSE /\ toolPc' = "awaitCreateRun"
            /\ UNCHANGED toolRet
    /\ UNCHANGED <<runId, requestContext, runVars, envVars, searchVars, clock, deepVars, twoVars, bootVars>>

\* createRun() has resolved: the RequestContext is built and run.start() is called (up to
\* its await)
ToolCreateRunResolves(id) ==
    /\ toolPc = "awaitCreateRun"
    /\ runId' = Some(id)
    /\ requestContext' = Some(NewRequestContext(id))
    /\ toolPc' = "awaitStart"
    /\ status' = "running"
    /\ UNCHANGED <<toolInput, toolRet, started, active, inputData, output, runError, modelOut,
                   envVars, searchVars, clock, deepVars, twoVars, bootVars>>

\* createRun() has rejected (the storage it persists the run in is unavailable): execute()
\* has no try/catch, the rejection leaves it
ToolCreateRunRejects ==
    /\ toolPc = "awaitCreateRun"
    /\ toolPc' = "threw"
    /\ UNCHANGED <<toolInput, toolRet, runId, requestContext, runVars, envVars, searchVars,
                   clock, deepVars, twoVars, bootVars>>

\* execute() after run.start() has resolved
ToolReturn ==
    /\ toolPc = "awaitStart"
    /\ status \in {"success", "failed"}
    /\ toolPc' = "returned"
    /\ toolRet' = Some([ run |-> TRUE,
                         status |-> Outcome.status,
                         result |-> ToolResult(Outcome),
                         error |-> ToolErrorStr(Outcome),
                         message |-> ToolMessage(Outcome) ])
    /\ UNCHANGED <<toolInput, runId, requestContext, runVars, envVars, searchVars, clock, deepVars, twoVars, bootVars>>

(***************************************************************************)
(* Execution of the committed step chain.                                   *)
(***************************************************************************)
AgentActive == \E i \in active : Chain[i].kind = "agent"

\* .then(): a step is invoked once every step before it in the chain has completed
CanStartEager(i) == i = Len(started) + 1 /\ i <= Len(Chain)
CanStart(i) == i = Len(started) + 1 /\ i <= Len(Chain) /\ active = {}

\* a model-backed step fails when its structured output does not match its schema
OutputAcceptedAlways(step, r) == TRUE
OutputAcceptedUnlessRejected(step, r) ==
    Validate(step.schema, r) /\ ("accepted" \in DOMAIN r => r.accepted)
OutputAccepted(step, r) == Validate(step.schema, r)

StepStart(i) ==
    /\ status = "running"
    /\ CanStart(i)
    /\ started' = Append(started, Chain[i].id)
    /\ active' = active \cup {i}
    /\ inputData' = IF i = 1 THEN Some([prompt |-> Val(toolInput)]) ELSE output
    /\ UNCHANGED <<status, output, runError, modelOut, toolVars, envVars, searchVars, clock, deepVars, twoVars, bootVars>>

\* the agent's structured output arrives (all its tool calls have returned)
AgentComplete(i) ==
    /\ status = "running"
    /\ i \in active
    /\ Chain[i].kind = "agent"
    /\ searchPc = "idle"
    /\ \E r \in (IF Chain[i].phase = "Intake" THEN IntakeOutputs ELSE LLMOutputs(Chain[i].phase)) :
         /\ modelOut' = Some([step |-> i, raw |-> Some(r), threw |-> FALSE])
         /\ active' = active \ {i}
         /\ IF OutputAccepted(Chain[i], r)
            THEN /\ output' = Some(Parse(Chain[i].schema, r))
                 /\ status' = IF i = Len(Chain) THEN "success" ELSE status
                 /\ UNCHANGED runError
            ELSE /\ status' = "failed"
                 /\ runError' = Some([message |-> "Structured output validation failed"])
                 /\ UNCHANGED output
    /\ UNCHANGED <<started, inputData, toolVars, envVars, searchVars, clock, deepVars, twoVars, bootVars>>

\* the model invocation throws
AgentThrows(i) ==
    /\ status = "running"
    /\ i \in active
    /\ Chain[i].kind = "agent"
    /\ searchPc = "idle"
    /\ modelOut' = Some([step |-> i, raw |-> None, threw |-> TRUE])
    /\ active' = active \ {i}
    /\ status' = "failed"
    /\ runError' = Some([message |-> "model invocation failed"])
    /\ UNCHANGED <<started, inputData, output, toolVars, envVars, searchVars, clock, deepVars, twoVars, bootVars>>

BridgeComplete(i) ==
    /\ status = "running"
    /\ i \in active
    /\ Chain[i].kind = "bridge"
    /\ inputData # None
    /\ output' = Some(BridgeExecute(Chain[i], Val(inputData)))
    /\ active' = active \ {i}
    /\ UNCHANGED <<status, started, inputData, runError, modelOut, toolVars, envVars,
                   searchVars, clock, deepVars, twoVars, bootVars>>

(***************************************************************************)
(* The internet-search tool (search-tools.ts).  Strings whose characters    *)
(* matter (the API key) are sequences of one-character strings.             *)
(***************************************************************************)
MaxSearchCalls == 2
MaxOrganic == 6
DefaultNumResults == 5

Whitespace == {" ", "\t"}

RECURSIVE TrimStart(_)
TrimStart(s) == IF s # <<>> /\ Head(s) \in Whitespace THEN TrimStart(Tail(s)) ELSE s
RECURSIVE TrimEnd(_)
TrimEnd(s) ==
    IF s # <<>> /\ s[Len(s)] \in Whitespace THEN TrimEnd(SubSeq(s, 1, Len(s) - 1)) ELSE s
\* String.prototype.trim()
Trim(s) == TrimEnd(TrimStart(s))

\* process.env.SERPER_API_KEY?.trim() || undefined
getSerperApiKeyUntrimmed ==
    IF ~processDefined THEN None
    ELSE IF envKey = None THEN None
    ELSE IF Val(envKey) = <<>> THEN None
    ELSE Some(Val(envKey))
getSerperApiKey ==
    IF ~processDefined THEN None
    ELSE IF envKey = None THEN None
    ELSE IF Trim(Val(envKey)) = <<>> THEN None
    ELSE Some(Trim(Val(envKey)))

Min(a, b) == IF a <= b THEN a ELSE b

\* o.title ?? '', o.link ?? '', o.snippet ?? ''
ResultOf(o) ==
    [ title |-> IF "title" \in DOMAIN o THEN o.title ELSE "",
      link |-> IF "link" \in DOMAIN o THEN o.link ELSE "",
      snippet |-> IF "snippet" \in DOMAIN o THEN o.snippet ELSE "" ]

\* organic.slice(0, numResults).map(...)
ResultsOfUntruncated(organic, numResults) ==
    [i \in 1..Len(organic) |-> ResultOf(organic[i])]
ResultsOf(organic, numResults) ==
    [i \in 1..Min(numResults, Len(organic)) |-> ResultOf(organic[i])]

\* inputSchema: numResults is z.number().min(1).max(10).optional().default(5)
NumResultsInput(given) == IF given = None THEN DefaultNumResults ELSE Val(given)

\* JSON.parse of a body that is the literal null
JsNull == [isNull |-> TRUE]

\* execute() up to the await of fetch(); without a key it returns at once
InternetSearchBegin(query, given) ==
    /\ searchPc = "idle"
    /\ searchCalls < MaxSearchCalls
    /\ searchCalls' = searchCalls + 1
    /\ searchReq' = Some([query |-> query, numResults |-> NumResultsInput(given),
                          given |-> given])
    /\ httpResp' = None
    /\ IF getSerperApiKey = None
       THEN /\ searchPc' = "returned"
            /\ searchRet' = Some([ success |-> FALSE, query |-> query, results |-> <<>>,
                                   error |-> Some("SERPER_API_KEY not set. Add it to .env for live web search.") ])
            /\ UNCHANGED httpRequests
       ELSE /\ searchPc' = "fetching"
            /\ searchRet' = None
            /\ httpRequests' = httpRequests + 1
    /\ UNCHANGED <<envVars, toolVars, runVars, clock, deepVars, twoVars, bootVars>>

\* execute() after fetch() has settled: a network fault, a non-2xx response, a 2xx
\* response whose body does not parse, or a parsed body
InternetSearchRespond(resp) ==
    /\ searchPc = "fetching"
    /\ searchPc' = "returned"
    /\ httpResp' = Some(resp)
    /\ LET query == Val(searchReq).query
           numResults == Val(searchReq).numResults
       IN searchRet' =
            IF resp.kind = "networkError"
            THEN Some([success |-> FALSE, query |-> query, results |-> <<>>,
                       error |-> Some(resp.message)])
            ELSE IF ~resp.ok
            THEN Some([success |-> FALSE, query |-> query, results |-> <<>>,
                       error |-> Some(IF resp.text # "" THEN resp.text ELSE resp.statusText)])
            ELSE IF resp.json = None
            THEN Some([success |-> FALSE, query |-> query, results |-> <<>>,
                       error |-> Some("Unexpected token < in JSON at position 0")])
            ELSE IF Val(resp.json) = JsNull
            THEN Some([success |-> FALSE, query |-> query, results |-> <<>>,
                       error |-> Some("Cannot read properties of null (reading 'organic')")])
            ELSE Some([success |-> TRUE, query |-> query,
                       results |-> ResultsOf(IF "organic" \in DOMAIN Val(resp.json)
                                             THEN Val(resp.json).organic ELSE <<>>,
                                             numResults),
                       error |-> None])
    /\ UNCHANGED <<searchReq, searchCalls, httpRequests, envVars, toolVars, runVars, clock, deepVars, twoVars, bootVars>>

\* the caller (the agent's model loop) takes the tool's return value
SearchDeliver ==
    /\ searchPc = "returned"
    /\ searchPc' = "idle"
    /\ searchRet' = None
    /\ searchReq' = None
    /\ httpResp' = None
    /\ UNCHANGED <<searchCalls, httpRequests, envVars, toolVars, runVars, clock, deepVars, twoVars, bootVars>>

\* what the search API may answer
OrganicEntries ==
    { [title |-> "t1", link |-> "l1", snippet |-> "s1"],
      [title |-> "t2"] }
RECURSIVE SeqsUpTo(_, _)
SeqsUpTo(S, n) ==
    IF n = 0 THEN {<<>>}
    ELSE SeqsUpTo(S, n - 1) \cup {Append(q, x) : q \in SeqsUpTo(S, n - 1), x \in S}
HttpFailures ==
    { [kind |-> "networkError", message |-> "fetch failed"],
      [kind |-> "http", ok |-> FALSE, text |-> "Unauthorized", statusText |-> "Forbidden"],
      [kind |-> "http", ok |-> FALSE, text |-> "", statusText |-> "Forbidden"],
      [kind |-> "http", ok |-> FALSE, text |-> "", statusText |-> ""],
      [kind |-> "http", ok |-> TRUE, json |-> None],
      [kind |-> "http", ok |-> TRUE, json |-> Some(JsNull)] }
HttpAnswers(organics) ==
    {[kind |-> "http", ok |-> TRUE, json |-> Some([organic |-> o])] : o \in organics}
      \cup {[kind |-> "http", ok |-> TRUE, json |-> Some([searchParameters |-> "p"])]}

(***************************************************************************)
(* The deep-research tool (search-tools.ts).                                *)
(***************************************************************************)
NumPerQuery == 3
MinQueries == 1
MaxQueries == 5

\* one iteration of the loop body: what it pushes for the query, given what fetch() settled
\* with (the catch block pushes an entry with no results)
DeepFinding(query, resp) ==
    IF resp.kind = "networkError" THEN [query |-> query, results |-> <<>>]
    ELSE IF ~resp.ok THEN [query |-> query, results |-> ResultsOf(<<>>, NumPerQuery)]
    ELSE IF resp.json = None THEN [query |-> query, results |-> <<>>]
    ELSE IF Val(resp.json) = JsNull THEN [query |-> query, results |-> <<>>]
    ELSE [ query |-> query,
           results |-> ResultsOf(IF "organic" \in DOMAIN Val(resp.json)
                                 THEN Val(resp.json).organic ELSE <<>>,
                                 NumPerQuery) ]

\* results.push(...) of one iteration
DeepPushUnlessFailed(findings, query, resp) ==
    IF resp.kind = "networkError" \/ ~resp.ok THEN findings
    ELSE Append(findings, DeepFinding(query, resp))
DeepPush(findings, query, resp) == Append(findings, DeepFinding(query, resp))

\* execute() up to the loop; without a key it returns at once
DeepResearchBegin(reasoning, queries) ==
    /\ deepPc = "idle"
    /\ deepArgs' = Some([reasoning |-> reasoning, queries |-> queries])
    /\ deepFindings' = <<>>
    /\ deepResps' = <<>>
    /\ IF getSerperApiKey = None
       THEN /\ deepPc' = "returned"
            /\ deepRet' = Some([ success |-> FALSE, reasoning |-> reasoning,
                                findings |-> <<>>,
                                synthesisHint |-> <<"Add SERPER_API_KEY to .env for live deep research.">>,
                                error |-> Some("SERPER_API_KEY not set.") ])
       ELSE /\ deepPc' = "looping"
            /\ UNCHANGED deepRet
    /\ UNCHANGED <<envVars, toolVars, runVars, searchVars, clock, twoVars, bootVars>>

\* one iteration of `for (const query of queries)`: the request is sent and settles
DeepResearchFetch(resp) ==
    /\ deepPc = "looping"
    /\ Len(deepResps) < Len(Val(deepArgs).queries)
    /\ httpRequests' = httpRequests + 1
    /\ deepResps' = Append(deepResps, resp)
    /\ deepFindings' = DeepPush(deepFindings, Val(deepArgs).queries[Len(deepResps) + 1], resp)
    /\ UNCHANGED <<deepPc, deepArgs, deepRet, searchPc, searchReq, searchRet, searchCalls,
                   httpResp, envVars, toolVars, runVars, clock, twoVars, bootVars>>

\* the return after the loop
DeepResearchReturn ==
    /\ deepPc = "looping"
    /\ Len(deepResps) = Len(Val(deepArgs).queries)
    /\ deepPc' = "returned"
    /\ deepRet' = Some([ success |-> TRUE, reasoning |-> Val(deepArgs).reasoning,
                        findings |-> deepFindings,
                        synthesisHint |-> << "Synthesize the above findings with respect to: ",
                                             Val(deepArgs).reasoning,
                                             ". Cite sources; note conflicts or gaps." >>,
                        error |-> None ])
    /\ UNCHANGED <<deepArgs, deepFindings, deepResps, envVars, toolVars, runVars, searchVars,
                   clock, twoVars, bootVars>>

(***************************************************************************)
(* Several invocations of the workflow tool in flight at once               *)
(* (research-agent.ts); each run is reduced to its outcome and to what its  *)
(* phase agents write in the shared Memory.                                 *)
(***************************************************************************)
MaxInvocations == 2
Invocations == 1..MaxInvocations

IdleInvocation ==
    [ pc |-> "idle", prompt |-> None, source |-> None, context |-> None, calls |-> <<>>,
      runId |-> None, requestContext |-> None, startInput |-> None, ret |-> None ]

\* const requestContext = new RequestContext(): an object of this execute() alone
SharedContext(iv, k, ctx) ==
    [j \in DOMAIN iv |->
        IF j = k \/ iv[j].requestContext # None
        THEN [iv[j] EXCEPT !.requestContext = Some(ctx)]
        ELSE iv[j]]
OwnContext(iv, k, ctx) == [iv EXCEPT ![k].requestContext = Some(ctx)]

\* inputData: { prompt: inputData.prompt }
StartInput(prompt) == [prompt |-> prompt]

InvExecute(k, prompt, source, context) ==
    /\ inv[k].pc = "idle"
    /\ inv' = [inv EXCEPT
                 ![k].prompt = Some(prompt),
                 ![k].source = Some(source),
                 ![k].context = Some(context),
                 ![k].calls = IF resolveWorkflow(source, context) = None
                              THEN <<>> ELSE <<"createRun">>,
                 ![k].pc = IF resolveWorkflow(source, context) = None
                           THEN "returned" ELSE "awaitCreateRun",
                 ![k].ret = IF resolveWorkflow(source, context) = None
                            THEN Some([ run |-> FALSE,
                                        error |-> Some("Workflow not available in this context"),
                                        message |-> <<"The pipeline could not be started (workflow not available). Please try again or use Research AI.">> ])
                            ELSE None]
    /\ UNCHANGED <<memoryStore, envVars, toolVars, runVars, searchVars, clock, deepVars, bootVars>>

InvCreateRunResolves(k, id) ==
    /\ inv[k].pc = "awaitCreateRun"
    /\ inv' = OwnContext([inv EXCEPT ![k].pc = "awaitStart",
                                     ![k].calls = Append(@, "start"),
                                     ![k].runId = Some(id),
                                     ![k].startInput = Some(StartInput(Val(inv[k].prompt)))],
                         k, NewRequestContext(id))
    /\ UNCHANGED <<memoryStore, envVars, toolVars, runVars, searchVars, clock, deepVars, bootVars>>

InvCreateRunRejects(k) ==
    /\ inv[k].pc = "awaitCreateRun"
    /\ inv' = [inv EXCEPT ![k].pc = "threw"]
    /\ UNCHANGED <<memoryStore, envVars, toolVars, runVars, searchVars, clock, deepVars, bootVars>>

\* a phase agent of run k saves its messages in the Memory, under the thread and resource
\* of the run's RequestContext
InvAgentRemembers(k) ==
    /\ inv[k].pc = "awaitStart"
    /\ memoryStore' = memoryStore \cup
         { [ thread |-> Val(inv[k].requestContext).MastraMemory.thread.id,
             resource |-> Val(inv[k].requestContext).MastraMemory.resourceId,
             run |-> Val(inv[k].runId) ] }
    /\ UNCHANGED <<inv, envVars, toolVars, runVars, searchVars, clock, deepVars, bootVars>>

\* run.start() has resolved with the given status; execute() returns
InvStartResolves(k, st) ==
    /\ inv[k].pc = "awaitStart"
    /\ LET outcome == [ status |-> st,
                        result |-> IF st = "success" THEN Some(BaseF) ELSE None,
                        error |-> IF st = "failed"
                                  THEN Some([message |-> "model invocation failed"])
                                  ELSE None ]
       IN inv' = [inv EXCEPT
                    ![k].pc = "returned",
                    ![k].ret = Some([ run |-> TRUE,
                                      status |-> outcome.status,
                                      result |-> ToolResult(outcome),
                                      error |-> ToolErrorStr(outcome),
                                      message |-> ToolMessage(outcome) ])]
    /\ UNCHANGED <<memoryStore, envVars, toolVars, runVars, searchVars, clock, deepVars, bootVars>>

(***************************************************************************)
(* Module initialisation (index.ts): observability, the phase agents with   *)
(* the workflow getter, the workflow, the research agent, the Mastra        *)
(* instance.                                                                *)
(***************************************************************************)
AgentNames ==
    { "researchAgent", "intakeAgent", "phaseAAgent", "phaseBAgent", "phaseCAgent",
      "phaseDAgent", "phaseEAgent", "phaseFAgent" }

\* what require('@mastra/observability') may meet: no package, a package that throws
\* while loading, or a package with some exports whose constructors work or throw
ObsExportSets ==
    { {}, {"Observability"}, {"DefaultExporter"}, {"Observability", "DefaultExporter"},
      {"Observability", "DefaultExporter", "CloudExporter"},
      {"Observability", "DefaultExporter", "CloudExporter", "SensitiveDataFilter"} }
ObsPackages ==
    {[kind |-> "missing"], [kind |-> "loadThrows"]}
      \cup {[kind |-> "loaded", exports |-> e, constructs |-> c] :
              e \in ObsExportSets, c \in BOOLEAN}

getObservability(pkg) ==
    IF pkg.kind # "loaded" THEN None
    ELSE IF "Observability" \notin pkg.exports \/ "DefaultExporter" \notin pkg.exports
    THEN None
    ELSE IF ~pkg.constructs THEN None
    ELSE Some([ serviceName |-> "research-ai",
                exporters |-> <<"DefaultExporter">> \o
                                (IF "CloudExporter" \in pkg.exports
                                 THEN <<"CloudExporter">> ELSE <<>>),
                spanOutputProcessors |-> IF "SensitiveDataFilter" \in pkg.exports
                                         THEN <<"SensitiveDataFilter">> ELSE <<>> ])

\* () => researchExecutionWorkflow ?? null (None is both undefined and null)
getResearchExecutionWorkflow(cell) == IF cell = None THEN None ELSE cell

\* the workflowSource of the intake agent's tool: the getter, resolved when called
IntakeWorkflowSourceEager(atConstruction, atCall) ==
    IF atConstruction = None
    THEN [type |-> "null", yields |-> None]
    ELSE [type |-> "handle", yields |-> atConstruction]
IntakeWorkflowSource(atConstruction, atCall) ==
    [type |-> "function", yields |-> getResearchExecutionWorkflow(atCall)]

\* the argument of new Mastra(...): ...(observability ? { observability } : {})
MastraConfigWithEntry(wf, obs) ==
    [ agents |-> AgentNames, workflows |-> [researchExecution |-> wf],
      storage |-> "mastra-storage", observability |-> obs ]
MastraConfig(wf, obs) ==
    IF obs = None
    THEN [ agents |-> AgentNames, workflows |-> [researchExecution |-> wf],
           storage |-> "mastra-storage" ]
    ELSE [ agents |-> AgentNames, workflows |-> [researchExecution |-> wf],
           storage |-> "mastra-storage", observability |-> Val(obs) ]

\* const observability = getObservability()
BootGetObservability ==
    /\ bootPc = "load"
    /\ observability' = getObservability(obsPackage)
    /\ obsCalls' = obsCalls + 1
    /\ bootPc' = "agents"
    /\ UNCHANGED <<obsPackage, researchExecutionWorkflow, capturedAtConstruction,
                   mastraConfig, lastGetterCall, envVars, toolVars, runVars, searchVars,
                   clock, deepVars, twoVars>>

\* createPhaseAgentsWithMemory(storage, getResearchExecutionWorkflow)
BootCreatePhaseAgents ==
    /\ bootPc = "agents"
    /\ capturedAtConstruction' = researchExecutionWorkflow
    /\ bootPc' = "workflow"
    /\ UNCHANGED <<obsPackage, observability, obsCalls, researchExecutionWorkflow,
                   mastraConfig, lastGetterCall, envVars, toolVars, runVars, searchVars,
                   clock, deepVars, twoVars>>

\* researchExecutionWorkflow = createResearchExecutionWorkflow({...})
BootCreateWorkflow ==
    /\ bootPc = "workflow"
    /\ researchExecutionWorkflow' = Some(TheWorkflow)
    /\ bootPc' = "researchAgent"
    /\ UNCHANGED <<obsPackage, observability, obsCalls, capturedAtConstruction,
                   mastraConfig, lastGetterCall, envVars, toolVars, runVars, searchVars,
                   clock, deepVars, twoVars>>

\* createResearchAgent(storage, researchExecutionWorkflow)
BootCreateResearchAgent ==
    /\ bootPc = "researchAgent"
    /\ bootPc' = "mastra"
    /\ UNCHANGED <<obsPackage, observability, obsCalls, researchExecutionWorkflow,
                   capturedAtConstruction, mastraConfig, lastGetterCall, envVars, toolVars,
                   runVars, searchVars, clock, deepVars, twoVars>>

\* new Mastra({ agents, workflows, storage, ...observability })
BootNewMastra ==
    /\ bootPc = "mastra"
    /\ mastraConfig' = Some(MastraConfig(Val(researchExecutionWorkflow), observability))
    /\ bootPc' = "ready"
    /\ UNCHANGED <<obsPackage, observability, obsCalls, researchExecutionWorkflow,
                   capturedAtConstruction, lastGetterCall, envVars, toolVars, runVars,
                   searchVars, clock, deepVars, twoVars>>

\* a call of getResearchExecutionWorkflow(), possible once it is defined
GetterCalled ==
    /\ bootPc # "load"
    /\ lastGetterCall' =
         Some([at |-> bootPc, got |-> getResearchExecutionWorkflow(researchExecutionWorkflow)])
    /\ lastGetterCall' # lastGetterCall
    /\ UNCHANGED <<bootPc, obsPackage, observability, obsCalls, researchExecutionWorkflow,
                   capturedAtConstruction, mastraConfig, envVars, toolVars, runVars,
                   searchVars, clock, deepVars, twoVars>>

\* the state of the module once it has been initialised (no observability package)
InitStarted ==
    /\ bootPc = "ready"
    /\ obsPackage = [kind |-> "missing"]
    /\ observability = None
    /\ obsCalls = 1
    /\ researchExecutionWorkflow = Some(TheWorkflow)
    /\ capturedAtConstruction = None
    /\ mastraConfig = Some(MastraConfig(TheWorkflow, None))
    /\ lastGetterCall = None

(***************************************************************************)
(* Specification of one tool invocation and the run it starts.              *)
(***************************************************************************)
EnvKeys == {None, Some(<<>>), Some(<<" ">>), Some(<<"\t", " ">>), Some(<<"k">>),
            Some(<<" ", "k", "\t">>)}

InitProgram ==
    /\ toolPc = "idle" /\ toolInput = None /\ toolRet = None
    /\ runId = None /\ requestContext = None
    /\ status = "none" /\ started = <<>> /\ active = {}
    /\ inputData = None /\ output = None /\ runError = None /\ modelOut = None
    /\ searchPc = "idle" /\ searchReq = None /\ searchRet = None
    /\ searchCalls = 0 /\ httpRequests = 0 /\ httpResp = None
    /\ clock = 0
    /\ deepPc = "idle" /\ deepArgs = None /\ deepFindings = <<>> /\ deepResps = <<>>
    /\ deepRet = None
    /\ memoryStore = {}
    /\ inv = [k \in Invocations |-> IdleInvocation]

InitIdle ==
    /\ InitProgram
    /\ InitStarted

Init ==
    /\ InitIdle
    /\ processDefined = TRUE
    /\ envKey \in {None, Some(<<"k">>)}

Execute == \E p \in Prompts, src \in WorkflowSources, ctx \in Contexts : ToolExecute(p, src, ctx)
CreateRunResolves == \E id \in RunIds : ToolCreateRunResolves(id)
Start == \E i \in 1..Len(Chain) : StepStart(i)
ModelAnswers == \E i \in 1..Len(Chain) : AgentComplete(i)
ModelThrows == \E i \in 1..Len(Chain) : AgentThrows(i)
Bridge == \E i \in 1..Len(Chain) : BridgeComplete(i)
\* a model-backed step calls internet-search
AgentSearches ==
    /\ status = "running"
    /\ AgentActive
    /\ InternetSearchBegin("q1", None)
SearchAnswered ==
    \E resp \in {[kind |-> "networkError", message |-> "fetch failed"]}
                  \cup HttpAnswers({<<[title |-> "t1", link |-> "l1", snippet |-> "s1"]>>}) :
        InternetSearchRespond(resp)

Next ==
    \/ Execute
    \/ CreateRunResolves
    \/ ToolCreateRunRejects
    \/ Start
    \/ ModelAnswers
    \/ ModelThrows
    \/ Bridge
    \/ AgentSearches
    \/ SearchAnswered
    \/ SearchDeliver
    \/ ToolReturn

Spec == Init /\ [][Next]_vars

(***************************************************************************)
(* The same, with the wall clock of the tool's await of run.start().        *)
(***************************************************************************)
TimeoutMinutes == 10
MaxClock == 11

Tick ==
    /\ toolPc = "awaitStart"
    /\ clock < MaxClock
    /\ clock' = clock + 1
    /\ UNCHANGED <<envVars, toolVars, runVars, searchVars, deepVars, twoVars, bootVars>>

InitTimed ==
    /\ InitIdle
    /\ processDefined = TRUE
    /\ envKey = Some(<<"k">>)

NextTimed == Next \/ Tick

SpecTimed == InitTimed /\ [][NextTimed]_vars

(***************************************************************************)
(* The internet-search tool called on its own (by the chat agent).          *)
(***************************************************************************)
Queries == {"b2b tool demand", "pricing benchmarks"}
MinNumResults == 1
MaxNumResults == 10

InitSearch ==
    /\ InitIdle
    /\ processDefined \in BOOLEAN
    /\ envKey \in EnvKeys
    /\ ~processDefined => envKey = None

ChatSearches ==
    \E q \in Queries, n \in {None} \cup {Some(k) : k \in MinNumResults..MaxNumResults} :
        /\ status = "none"
        /\ InternetSearchBegin(q, n)
ChatSearchAnswered ==
    \E resp \in HttpFailures \cup HttpAnswers(SeqsUpTo(OrganicEntries, MaxOrganic)) :
        InternetSearchRespond(resp)

NextSearch ==
    \/ ChatSearches
    \/ ChatSearchAnswered
    \/ SearchDeliver

SpecSearch == InitSearch /\ [][NextSearch]_vars

(***************************************************************************)
(* The deep-research tool called on its own.                                *)
(***************************************************************************)
DeepResponses ==
    { [kind |-> "networkError", message |-> "fetch failed"],
      [kind |-> "http", ok |-> FALSE, text |-> "Unauthorized", statusText |-> "Forbidden"],
      [kind |-> "http", ok |-> TRUE, json |-> None],
      [kind |-> "http", ok |-> TRUE,
       json |-> Some([organic |-> <<[title |-> "t1", link |-> "l1", snippet |-> "s1"]>>])],
      [kind |-> "http", ok |-> TRUE,
       json |-> Some([organic |-> << [title |-> "t2"],
                                     [title |-> "t1", link |-> "l1", snippet |-> "s1"],
                                     [title |-> "t2"],
                                     [title |-> "t1", link |-> "l1", snippet |-> "s1"] >>])] }

InitDeep ==
    /\ InitIdle
    /\ processDefined = TRUE
    /\ envKey \in {None, Some(<<" ">>), Some(<<"k">>)}

DeepBegins ==
    \E qs \in SeqsUpTo(Queries, MaxQueries) \ SeqsUpTo(Queries, MinQueries - 1) :
        DeepResearchBegin("is there demand", qs)
DeepFetches == \E resp \in DeepResponses : DeepResearchFetch(resp)

NextDeep ==
    \/ DeepBegins
    \/ DeepFetches
    \/ DeepResearchReturn

SpecDeep == InitDeep /\ [][NextDeep]_vars

(***************************************************************************)
(* Concurrent invocations of the workflow tool.                             *)
(***************************************************************************)
InitTwo ==
    /\ InitIdle
    /\ processDefined = TRUE
    /\ envKey = Some(<<"k">>)

InvExecutes ==
    \E k \in Invocations, p \in Prompts, src \in WorkflowSources, ctx \in Contexts :
        InvExecute(k, p, src, ctx)
InvCreateRunDone == \E k \in Invocations, id \in RunIds : InvCreateRunResolves(k, id)
InvCreateRunFails == \E k \in Invocations : InvCreateRunRejects(k)
InvRemembers == \E k \in Invocations : InvAgentRemembers(k)
InvStartDone == \E k \in Invocations, st \in {"success", "failed"} : InvStartResolves(k, st)

NextTwo ==
    \/ InvExecutes
    \/ InvCreateRunDone
    \/ InvCreateRunFails
    \/ InvRemembers
    \/ InvStartDone

SpecTwo == InitTwo /\ [][NextTwo]_vars

(***************************************************************************)
(* Start-up of the module, then the intake agent's tool is called.          *)
(***************************************************************************)
InitBoot ==
    /\ InitProgram
    /\ processDefined = TRUE
    /\ envKey = Some(<<"k">>)
    /\ bootPc = "load"
    /\ obsPackage \in ObsPackages
    /\ observability = None
    /\ obsCalls = 0
    /\ researchExecutionWorkflow = None
    /\ capturedAtConstruction = None
    /\ mastraConfig = None
    /\ lastGetterCall = None

\* the intake agent's model calls runResearchExecutionWorkflow
IntakeToolExecutes ==
    /\ bootPc = "ready"
    /\ \E p \in Prompts, ctx \in Contexts :
         InvExecute(1, p, IntakeWorkflowSource(capturedAtConstruction,
                                               researchExecutionWorkflow), ctx)

NextBoot ==
    \/ BootGetObservability
    \/ BootCreatePhaseAgents
    \/ BootCreateWorkflow
    \/ BootCreateResearchAgent
    \/ BootNewMastra
    \/ GetterCalled
    \/ IntakeToolExecutes
    \/ InvCreateRunDone
    \/ InvCreateRunFails
    \/ InvRemembers
    \/ InvStartDone

SpecBoot == InitBoot /\ [][NextBoot]_vars

(***************************************************************************)
(* Properties.                                                              *)
(***************************************************************************)
IsPrefix(a, b) == Len(a) <= Len(b) /\ a = SubSeq(b, 1, Len(a))

\* the record the tool returned as result, when it returned one
ToolReturned == toolPc = "returned" /\ toolRet # None
ReturnedRun == ToolReturned /\ Val(toolRet).run

\* the model-backed step i (a phase A..F) has just produced its accepted output record
PhaseDone(i) ==
    /\ status \in {"running", "success"}
    /\ active = {}
    /\ Len(started) = i
    /\ i <= Len(Chain)
    /\ Chain[i].kind = "agent"
    /\ Chain[i].phase # "Intake"

\* the serialized previous record inside the prompt the current phase was given
PrevPairs == Val(inputData).prompt[2]
PrevFields == {PrevPairs[k][1] : k \in 1..Len(PrevPairs)}

\* every phase record the run holds: a step output, a bridge input, the tool's result
PhaseRecords ==
    {Val(o) : o \in {x \in {output, inputData} : x # None /\ "phase" \in DOMAIN Val(x)}}
      \cup (IF ReturnedRun /\ Val(toolRet).result # None THEN {Val(Val(toolRet).result)} ELSE {})

\* C1: the steps invoked are always a prefix of Intake, bridge, A, bridge, B, bridge, C,
\* bridge, D, bridge, E, bridge, F, and a successful run has invoked all thirteen, each
\* exactly once, in that order.
C1_FixedOrder ==
    LET expected ==
          << "intake-agent", "bridge-intake-to-a", "phase-a-agent", "bridge-a-to-b",
             "phase-b-agent", "bridge-b-to-c", "phase-c-agent", "bridge-c-to-d",
             "phase-d-agent", "bridge-d-to-e", "phase-e-agent", "bridge-e-to-f",
             "phase-f-agent" >>
    IN /\ IsPrefix(started, expected)
       /\ status = "success" => started = expected
C1_Witness == status = "success" /\ Len(started) = 13 /\ toolPc = "awaitStart"

\* C2: at most one step of the run is in progress; the step in progress is the one invoked
\* last; a search-tool call is in progress only inside a model-backed step, so a bridge
\* runs only when the preceding phase and all its search calls have completed.
C2_NoOverlap ==
    /\ Cardinality(active) <= 1
    /\ \A i \in active : i = Len(started)
    /\ searchPc # "idle" => AgentActive
    /\ \A i \in active : Chain[i].kind = "bridge" => searchPc = "idle" /\ inputData = output
C2_Witness ==
    \E i \in active : Chain[i].kind = "bridge" /\ Chain[i].phase = "B" /\ searchCalls = 2

\* C3: once a model-backed step has thrown or given output that does not match its schema,
\* the run is failed, that step is the last one invoked (no retry, no later step), and the
\* tool returns status failed with no result.
BadModelOut ==
    /\ modelOut # None
    /\ \/ Val(modelOut).threw
       \/ ~Validate(Chain[Val(modelOut).step].schema, Val(Val(modelOut).raw))
C3_FailurePropagates ==
    BadModelOut =>
        /\ status = "failed"
        /\ active = {}
        /\ Len(started) = Val(modelOut).step
        /\ ReturnedRun => Val(toolRet).status = "failed" /\ Val(toolRet).result = None
C3_Witness ==
    /\ BadModelOut
    /\ ~Val(modelOut).threw
    /\ Chain[Val(modelOut).step].phase = "C"
    /\ ReturnedRun

\* C4: the tool is never still waiting for run.start() once more than 10 minutes have
\* passed: by then it has cancelled the run and returned.
C4_TimeoutCancels == clock > TimeoutMinutes => toolPc # "awaitStart"

\* C5 (as stated): the record of each phase B..F contains every field of the previous
\* phase's record with the same value, plus at least one field the previous record lacks.
C5_FieldsCarriedUnchanged ==
    \A i \in {5, 7, 9, 11, 13} :
        PhaseDone(i) =>
            /\ \A k \in 1..Len(PrevPairs) :
                 /\ PrevPairs[k][1] \in DOMAIN Val(output)
                 /\ Val(output)[PrevPairs[k][1]] = PrevPairs[k][2]
            /\ \E f \in DOMAIN Val(output) : f \notin PrevFields

\* C5 (amended): the record of each phase B..F contains every required field of the
\* previous phase's record, each still satisfying the previous schema's constraint on it,
\* except phase, which is the phase's own letter; plus at least one field the previous
\* record lacks.
C5_RequiredFieldsKept ==
    \A i \in {5, 7, 9, 11, 13} :
        PhaseDone(i) =>
            LET prevSchema == Chain[i - 2].schema
                cur == Val(output)
            IN /\ \A k \in 1..Len(PrevPairs) :
                    LET f == PrevPairs[k][1]
                    IN ~prevSchema[f].optional =>
                          /\ f \in DOMAIN cur
                          /\ f # "phase" => FieldOk(prevSchema[f].kind, cur[f])
               /\ cur.phase = PhaseNames[(i - 1) \div 2]
               /\ \E f \in DOMAIN cur : f \notin PrevFields
C5_Witness ==
    /\ PhaseDone(9)
    /\ \E k \in 1..Len(PrevPairs) :
          /\ PrevPairs[k][1] = "businessGoal"
          /\ PrevPairs[k][2] # Val(output).businessGoal

\* the extensions of Phase B..F, in the order of the phases
Extensions ==
    <<PhaseBExtension, PhaseCExtension, PhaseDExtension, PhaseEExtension, PhaseFExtension>>
\* the position in the chain of the n-th extended phase's step (B is the first)
StepOfExtension(n) == 2 * n + 3

\* C6 (as stated): for each phase B..F a run has reached, the field names its extension
\* adds are disjoint from the field names of the schema it extends.
C6_ExtensionsDisjoint ==
    \A n \in 1..Len(Extensions) :
        Len(started) >= StepOfExtension(n) =>
            (DOMAIN Extensions[n]) \cap (DOMAIN Chain[StepOfExtension(n) - 2].schema) = {}

\* C6 (amended): for each phase B..F a run has reached, its schema deletes no field of the
\* schema it extends, and the only field name its extension re-specifies is phase (with
\* its own letter); every other earlier field keeps its declaration.
C6_OnlyPhaseRespecified ==
    \A n \in 1..Len(Extensions) :
        Len(started) >= StepOfExtension(n) =>
            LET base == Chain[StepOfExtension(n) - 2].schema
                ext == Extensions[n]
                full == Chain[StepOfExtension(n)].schema
            IN /\ (DOMAIN ext) \cap (DOMAIN base) = {"phase"}
               /\ DOMAIN base \subseteq DOMAIN full
               /\ \A f \in (DOMAIN base) \ {"phase"} : full[f] = base[f]
               /\ full["phase"] # base["phase"]
C6_Witness ==
    /\ PhaseDone(13)
    /\ DOMAIN Val(output) = (DOMAIN PhaseFOutputSchema)
                               \ {"rejectedReason", "validationNotes", "cycleRiskOrNoGo"}

\* C7: every phase record that is a step output, a bridge input or the tool's result has
\* timeHorizonDays 30, 60 or 90.
C7_TimeHorizon == \A r \in PhaseRecords : r.timeHorizonDays \in {30, 60, 90}
C7_Witness ==
    /\ ReturnedRun
    /\ Val(toolRet).result # None
    /\ Val(Val(toolRet).result).timeHorizonDays = 90

\* C8: every researchType value a phase record carries -- its researchType field and the
\* researchType of its handoffPackage -- is one of the five research types.
C8_ResearchTypeEnumerated ==
    \A r \in PhaseRecords :
        /\ r.researchType \in ResearchTypes
        /\ "handoffPackage" \in DOMAIN r => r.handoffPackage.researchType \in ResearchTypes

\* C9 (as stated): a run on the prompt that states a 60-day horizon that ends with a
\* result ends with a Phase F record with phase "F", timeHorizonDays 60 and a status of
\* SUCCESS, PARTIAL_SUCCESS or FAIL.
C9_HorizonOfPrompt ==
    (status = "success"
       /\ toolInput = Some("Validate demand for a $25k/month B2B tool in 60 days")) =>
        /\ Val(output).phase = "F"
        /\ Val(output).timeHorizonDays = 60
        /\ Val(output).status \in {"SUCCESS", "PARTIAL_SUCCESS", "FAIL"}

\* C9 (amended): a run that ends in success ends with a Phase F record with phase "F",
\* timeHorizonDays 30, 60 or 90 and a status of SUCCESS, PARTIAL_SUCCESS or FAIL, and the
\* tool returns that record as its result.
C9_FinalRecord ==
    status = "success" =>
        /\ Val(output).phase = "F"
        /\ Val(output).timeHorizonDays \in {30, 60, 90}
        /\ Val(output).status \in {"SUCCESS", "PARTIAL_SUCCESS", "FAIL"}
        /\ ReturnedRun => Val(toolRet).result = output
C9_Witness ==
    /\ ReturnedRun
    /\ status = "success"
    /\ toolInput = Some("Validate demand for a $25k/month B2B tool in 60 days")
    /\ Val(output).status = "PARTIAL_SUCCESS"

\* C10: with SERPER_API_KEY unset, empty or only whitespace, no HTTP request is ever sent
\* and every internet-search call returns success=false, no results, a non-empty error
\* and the query it was given.
NoCredential ==
    \/ ~processDefined
    \/ envKey = None
    \/ \A i \in 1..Len(Val(envKey)) : Val(envKey)[i] \in {" ", "\t"}
C10_NoCredential ==
    NoCredential =>
        /\ httpRequests = 0
        /\ searchPc # "fetching"
        /\ searchRet # None =>
              /\ Val(searchRet).success = FALSE
              /\ Val(searchRet).results = <<>>
              /\ Val(searchRet).error # None
              /\ Val(Val(searchRet).error) # ""
              /\ Val(searchRet).query = Val(searchReq).query
C10_Witness ==
    /\ envKey = Some(<<"\t", " ">>)
    /\ searchCalls = 2
    /\ searchRet # None
    /\ Val(searchReq).numResults = 10

\* what fetch() settled with is a network fault, a non-2xx response or an unparsable body
FailedResponse(resp) ==
    \/ resp.kind = "networkError"
    \/ resp.kind = "http" /\ ~resp.ok
    \/ resp.kind = "http" /\ resp.ok /\ resp.json = None

\* C11: with a credential, an internet-search call whose request met a network fault, a
\* non-2xx response or an unparsable body returns success=false, no results and a
\* non-empty error string.
C11_FailureExplained ==
    (searchPc = "returned" /\ httpResp # None /\ FailedResponse(Val(httpResp))) =>
        /\ searchRet # None
        /\ Val(searchRet).success = FALSE
        /\ Val(searchRet).results = <<>>
        /\ Val(searchRet).error # None
        /\ Val(Val(searchRet).error) # ""

\* C12: with a credential, a deep-research call with n queries returns success=true and
\* exactly n findings, the i-th naming the i-th query; the finding of a query that failed
\* in transport or with a non-2xx response has no results, and every other finding holds
\* the first NumPerQuery organic entries of its own response, whatever the others did.
C12_OneFindingPerQuery ==
    (deepPc = "returned" /\ getSerperApiKey # None) =>
        LET ret == Val(deepRet)
            queries == Val(deepArgs).queries
        IN /\ ret.success = TRUE
           /\ Len(ret.findings) = Len(queries)
           /\ Len(deepResps) = Len(queries)
           /\ \A i \in 1..Len(queries) :
                LET f == ret.findings[i]
                    resp == deepResps[i]
                IN /\ f.query = queries[i]
                   /\ (resp.kind = "networkError" \/ ~resp.ok) => f.results = <<>>
                   /\ (resp.kind = "http" /\ resp.ok /\ resp.json # None
                         /\ "organic" \in DOMAIN Val(resp.json)) =>
                        LET organic == Val(resp.json).organic
                        IN /\ Len(f.results) = Min(NumPerQuery, Len(organic))
                           /\ \A j \in 1..Len(f.results) : f.results[j] = ResultOf(organic[j])
C12_Witness ==
    /\ deepPc = "returned"
    /\ Val(deepRet).success
    /\ Len(Val(deepArgs).queries) = MaxQueries
    /\ deepResps[2].kind = "networkError"
    /\ deepResps[4].kind = "http" /\ ~deepResps[4].ok
    /\ Len(Val(deepRet).findings[3].results) = NumPerQuery
    /\ Len(Val(deepRet).findings[5].results) = 1

C14_AlwaysReturnsMessage ==
    /\ toolPc # "threw"
    /\ toolPc = "returned" =>
         /\ toolRet # None
         /\ Val(toolRet).message # <<>>

\* C15: two invocations whose runs have different runIds never hold contexts with the
\* same thread id or resource id, and no thread or resource in the shared Memory is
\* written by runs with different runIds.
C15_RunsKeepApart ==
    /\ \A k1 \in Invocations, k2 \in Invocations :
         ( /\ k1 # k2
           /\ inv[k1].requestContext # None
           /\ inv[k2].requestContext # None
           /\ inv[k1].runId # inv[k2].runId ) =>
            LET c1 == Val(inv[k1].requestContext)
                c2 == Val(inv[k2].requestContext)
            IN /\ c1.MASTRA_THREAD_ID_KEY # c2.MASTRA_THREAD_ID_KEY
               /\ c1.MASTRA_RESOURCE_ID_KEY # c2.MASTRA_RESOURCE_ID_KEY
               /\ c1.MastraMemory.thread.id # c2.MastraMemory.thread.id
               /\ c1.MastraMemory.resourceId # c2.MastraMemory.resourceId
    /\ \A m1 \in memoryStore, m2 \in memoryStore :
         m1.run # m2.run => (m1.thread # m2.thread /\ m1.resource # m2.resource)
C15_Witness ==
    /\ inv[1].pc = "awaitStart"
    /\ inv[2].pc = "awaitStart"
    /\ inv[1].runId # inv[2].runId
    /\ Cardinality(memoryStore) = 2

\* C16: the value the tool returns for a run it started includes the run's identifier
\* as workflowRunId.
C16_ReturnsRunId ==
    ReturnedRun =>
        /\ "workflowRunId" \in DOMAIN Val(toolRet)
        /\ Val(toolRet).workflowRunId = Val(runId)

\* C17: a successful internet-search call returns the response's organic entries in
\* their order, cut to at most numResults (1..10, 5 when not given), each as title, link
\* and snippet with "" for a missing part; a response without an organic list gives no
\* results.
C17_OrganicInOrder ==
    (searchPc = "returned" /\ searchRet # None /\ Val(searchRet).success) =>
        LET data == Val(Val(httpResp).json)
            organic == IF "organic" \in DOMAIN data THEN data.organic ELSE <<>>
            given == Val(searchReq).given
            n == IF given = None THEN 5 ELSE Val(given)
            results == Val(searchRet).results
        IN /\ n \in 1..10
           /\ Len(results) = (IF Len(organic) < n THEN Len(organic) ELSE n)
           /\ \A i \in 1..Len(results) :
                /\ results[i].title =
                     (IF "title" \in DOMAIN organic[i] THEN organic[i].title ELSE "")
                /\ results[i].link =
                     (IF "link" \in DOMAIN organic[i] THEN organic[i].link ELSE "")
                /\ results[i].snippet =
                     (IF "snippet" \in DOMAIN organic[i] THEN organic[i].snippet ELSE "")
           /\ "organic" \notin DOMAIN data => results = <<>>
C17_Witness ==
    /\ searchPc = "returned"
    /\ searchRet # None
    /\ Val(searchRet).success
    /\ Val(searchReq).given = None
    /\ Len(Val(Val(httpResp).json).organic) = 6
    /\ Len(Val(searchRet).results) = 5
    /\ Val(searchRet).results[5] = [title |-> "t2", link |-> "", snippet |-> ""]

\* the bridge step i has just completed
BridgeDone(i) ==
    /\ status = "running"
    /\ active = {}
    /\ Len(started) = i
    /\ Chain[i].kind = "bridge"
    /\ output # None

\* the instruction's label for each phase a bridge leads to
LabelOfPhase ==
    [ B |-> "Phase B - Research Type Validation",
      C |-> "Phase C - Metrics & Constraints Lock",
      D |-> "Phase D - Solution & Method Selection",
      E |-> "Phase E - Handoff Package Formation",
      F |-> "Phase F - Validation & Status" ]

\* the prompt is the serialization of the record `in` followed by the fixed instruction
\* naming the phase of the step after the bridge i
EmbedsRecordThenInstruction(prompt, in, i) ==
    /\ Len(prompt) = 5
    /\ prompt[1] = "[Previous phase output]\n"
    /\ Len(prompt[2]) = Cardinality(DOMAIN in)
    /\ \A f \in DOMAIN in :
         \E k \in 1..Len(prompt[2]) : prompt[2][k][1] = f /\ prompt[2][k][2] = in[f]
    /\ prompt[3] = "\n\nProceed to "
    /\ prompt[4] = LabelOfPhase[Chain[i + 1].phase]
    /\ prompt[5] = ". Output the complete structured result for this phase only (include all prior phase fields plus this phase's new fields)."

\* C18 (as stated): the prompt every one of the six bridges outputs embeds the serialized
\* input record followed by the fixed instruction naming the next phase; for the first
\* bridge this makes the prompt more than the enrichedPrompt of the intake record.
C18_BridgeEmbedsRecord ==
    \A i \in 1..(Len(Chain) - 1) :
        BridgeDone(i) =>
            IF Chain[i].id = "bridge-intake-to-a"
            THEN Val(output).prompt # Val(inputData).enrichedPrompt
            ELSE EmbedsRecordThenInstruction(Val(output).prompt, Val(inputData), i)

\* C18 (amended): a bridge only sets the step output, to one field `prompt`; the five
\* bridges after a phase embed the serialized input record followed by the fixed
\* instruction naming the next phase, and the first bridge outputs the enrichedPrompt of
\* the intake record as it is.
C18_RecordBridgesEmbedRecord ==
    \A i \in 1..(Len(Chain) - 1) :
        BridgeDone(i) =>
            /\ DOMAIN Val(output) = {"prompt"}
            /\ Chain[i + 1].kind = "agent"
            /\ IF Chain[i].id = "bridge-intake-to-a"
               THEN Val(output).prompt = Val(inputData).enrichedPrompt
               ELSE EmbedsRecordThenInstruction(Val(output).prompt, Val(inputData), i)
C18_Witness ==
    /\ BridgeDone(8)
    /\ Val(inputData).phase = "C"
    /\ "cycleRiskOrNoGo" \in DOMAIN Val(inputData)
    /\ Val(inputData).cycleRiskOrNoGo = TRUE
    /\ Val(output).prompt[4] = "Phase D - Solution & Method Selection"

\* a phase record that states a negative outcome
NegativeRecord(r) ==
    \/ "accepted" \in DOMAIN r /\ r.accepted = FALSE
    \/ "researchTypeValidated" \in DOMAIN r /\ r.researchTypeValidated = FALSE
    \/ "cycleRiskOrNoGo" \in DOMAIN r /\ r.cycleRiskOrNoGo = TRUE
    \/ "status" \in DOMAIN r /\ r.status = "FAIL"

\* C19: a run fails only when a model call throws or gives output that does not match
\* its schema; a phase whose record states a negative outcome leaves the run running
\* with the next step ready to be invoked, or, for Phase F, ends it in success.
C19_ContentDoesNotStopRun ==
    /\ status = "failed" => BadModelOut
    /\ \A i \in 1..Len(Chain) :
         (PhaseDone(i) /\ NegativeRecord(Val(output))) =>
            /\ status = (IF i = Len(Chain) THEN "success" ELSE "running")
            /\ i < Len(Chain) => ENABLED StepStart(i + 1)
C19_Witness ==
    /\ status = "success"
    /\ Len(started) = Len(Chain)
    /\ Val(output).status = "FAIL"
    /\ toolPc = "returned"
    /\ Val(toolRet).status = "success"

\* C20: an invocation holds no context before its createRun has resolved; once it has
\* called run.start, the context it passed has thread id, resource id and MastraMemory
\* thread and resource all equal to the run's runId, and the inputData it passed is the
\* prompt the tool was given.
C20_ContextOfRun ==
    \A k \in Invocations :
        /\ (inv[k].pc \in {"idle", "awaitCreateRun", "threw"} \/ inv[k].runId = None) =>
              (inv[k].requestContext = None /\ inv[k].startInput = None)
        /\ inv[k].runId # None =>
              /\ inv[k].pc \in {"awaitStart", "returned"}
              /\ inv[k].requestContext # None
              /\ LET c == Val(inv[k].requestContext)
                     id == Val(inv[k].runId)
                 IN /\ c.MASTRA_THREAD_ID_KEY = id
                    /\ c.MASTRA_RESOURCE_ID_KEY = id
                    /\ c.MastraMemory.thread.id = id
                    /\ c.MastraMemory.resourceId = id
              /\ inv[k].startInput = Some([prompt |-> Val(inv[k].prompt)])
C20_Witness ==
    /\ inv[1].pc = "awaitStart"
    /\ inv[1].runId = Some("run-2")
    /\ inv[1].startInput = Some([prompt |-> "Validate demand for a $25k/month B2B tool in 30 days"])
    /\ inv[2].pc = "awaitCreateRun"

\* C21: a call of the getter made before the workflow is assigned yields null; a call
\* made after start-up yields the workflow registered in Mastra; and no call of the
\* intake agent's tool after start-up returns run=false.
C21_ResolvedAtCallTime ==
    /\ lastGetterCall # None =>
         LET call == Val(lastGetterCall)
         IN /\ call.at \in {"agents", "workflow"} => call.got = None
            /\ call.at = "ready" =>
                 /\ call.got # None
                 /\ Val(call.got) = Val(mastraConfig).workflows.researchExecution
    /\ \A k \in Invocations :
         inv[k].ret # None =>
            /\ bootPc = "ready"
            /\ Val(inv[k].ret).run = TRUE
C21_Witness ==
    /\ lastGetterCall = Some([at |-> "ready", got |-> Some("research-execution")])
    /\ capturedAtConstruction = None
    /\ inv[1].pc = "returned"
    /\ Val(inv[1].context).mastra = FALSE
    /\ Val(inv[1].ret).run = TRUE

\* the package is missing, throws while loading, lacks Observability or DefaultExporter,
\* or throws while the entry is constructed
ObservabilityUnavailable ==
    \/ obsPackage.kind \in {"missing", "loadThrows"}
    \/ obsPackage.kind = "loaded" /\
         ( \/ "Observability" \notin obsPackage.exports
           \/ "DefaultExporter" \notin obsPackage.exports
           \/ ~obsPackage.constructs )

\* C22: getObservability is called once, at start-up, and never again; with the package
\* unavailable it yields undefined; Mastra is built with the eight agents, the workflow
\* and the storage, and with an observability entry exactly when one was obtained.
C22_ObservabilityOptional ==
    /\ obsCalls = (IF bootPc = "load" THEN 0 ELSE 1)
    /\ (bootPc # "load" /\ ObservabilityUnavailable) => observability = None
    /\ (bootPc # "load" /\ ~ObservabilityUnavailable) => observability # None
    /\ mastraConfig # None <=> bootPc = "ready"
    /\ bootPc = "ready" =>
         LET config == Val(mastraConfig)
         IN /\ Cardinality(config.agents) = 8
            /\ config.workflows.researchExecution = "research-execution"
            /\ config.storage = "mastra-storage"
            /\ "observability" \in DOMAIN config <=> ~ObservabilityUnavailable
            /\ "observability" \in DOMAIN config => config.observability = Val(observability)
C22_Witness ==
    /\ bootPc = "ready"
    /\ obsPackage = [kind |-> "loaded", exports |-> {"Observability"}, constructs |-> TRUE]
    /\ DOMAIN Val(mastraConfig) = {"agents", "workflows", "storage"}
    /\ inv[1].pc = "returned"
    /\ Val(inv[1].ret).status = "success"

\* the tool's source and context give no workflow: a getter that returns null, or a null
\* source with a context that has no mastra
CannotResolve(source, context) ==
    \/ source.type = "function" /\ source.yields = None
    \/ source.type = "null" /\ ~context.mastra

\* C23: an invocation that cannot resolve a workflow returns run=false with an error and
\* a message and has called neither createRun nor start; this includes a getter that
\* returns null in a context that has a mastra.
C23_UnresolvedReturnsAtOnce ==
    \A k \in Invocations :
        (inv[k].source # None /\ CannotResolve(Val(inv[k].source), Val(inv[k].context))) =>
            /\ inv[k].pc = "returned"
            /\ inv[k].calls = <<>>
            /\ inv[k].runId = None
            /\ inv[k].startInput = None
            /\ Val(inv[k].ret).run = FALSE
            /\ Val(inv[k].ret).error # None
            /\ Val(Val(inv[k].ret).error) # ""
            /\ Val(inv[k].ret).message # <<>>
C23_Witness ==
    /\ inv[1].source = Some([type |-> "function", yields |-> None])
    /\ inv[1].context = Some([mastra |-> TRUE])
    /\ inv[1].pc = "returned"
    /\ inv[2].source = Some([type |-> "null", yields |-> None])
    /\ inv[2].context = Some([mastra |-> TRUE])
    /\ inv[2].calls = <<"createRun", "start">>

\* a record whose costLimitUsd or timeLimitDays is outside the limits of Phase C
OutsideLimits(r) ==
    \/ "costLimitUsd" \in DOMAIN r /\ r.costLimitUsd > 500
    \/ "timeLimitDays" \in DOMAIN r /\ (r.timeLimitDays < 1 \/ r.timeLimitDays > 2)

\* C24: every record of phase C, D, E or F that a run holds has costLimitUsd at most 500
\* and timeLimitDays between 1 and 2, and a model output of one of these phases outside
\* the limits fails the run at that phase.
C24_LimitsLocked ==
    /\ \A r \in PhaseRecords :
         r.phase \in {"C", "D", "E", "F"} =>
            /\ "costLimitUsd" \in DOMAIN r
            /\ "timeLimitDays" \in DOMAIN r
            /\ ~OutsideLimits(r)
    /\ ( /\ modelOut # None
         /\ Val(modelOut).raw # None
         /\ Chain[Val(modelOut).step].phase \in {"C", "D", "E", "F"}
         /\ OutsideLimits(Val(Val(modelOut).raw)) ) =>
            /\ status = "failed"
            /\ Len(started) = Val(modelOut).step
C24_Witness ==
    /\ status = "failed"
    /\ modelOut # None
    /\ Val(modelOut).raw # None
    /\ Chain[Val(modelOut).step].phase = "E"
    /\ "costLimitUsd" \in DOMAIN Val(Val(modelOut).raw)
    /\ Val(Val(modelOut).raw).costLimitUsd = 501
    /\ toolPc = "returned"

====
